---- MODULE Spec2Model ----
(***************************************************************************)
(* Model of UniswapV3::inspect (src/src/inspectors/uniswap_v3.rs): one     *)
(* classification pass over an Inspection's action sequence, run in steps  *)
(* (snapshot, one loop iteration per step, deferred prune, early-revert    *)
(* heuristic), and repeated for a bounded number of passes.                *)
(* Sequence indices are 0-based as in the source; At(s, k) reads s[k].     *)
(***************************************************************************)
EXTENDS Integers, Sequences, FiniteSets, TLC

\* ---------------------------------------------------------------- bounds
MaxLen == 3
MaxChain == 5
MaxPasses == 2

\* ------------------------------------------------------------ data model
At(s, k) == s[k + 1]

Indices(s) == 0 .. (Len(s) - 1)

Prune == [tag |-> "Prune"]

Known(action, trace_address) ==
    [tag |-> "Known", action |-> action, trace_address |-> trace_address]

Unknown(call, trace_address) ==
    [tag |-> "Unknown", calltrace |-> [call |-> call, trace_address |-> trace_address]]

is_call(c) == c.tag = "Unknown"

is_action(c) == c.tag = "Known"

NotFound == [found |-> FALSE]

transfer(c) ==
    IF c.tag = "Known" /\ c.action.kind = "Transfer"
    THEN [found |-> TRUE, transfer |-> c.action]
    ELSE NotFound

\* ------------------------------------------------- external collaborators
NoMatch == [ok |-> FALSE]

decode_addLiquidity(input) ==
    IF input \in {"add", "addswap"}
    THEN [ok |-> TRUE, token0 |-> "tokA", token1 |-> "tokB", amount0 |-> 1, amount1 |-> 2]
    ELSE NoMatch

decode_swap(input) ==
    CASE input \in {"swap", "addswap"} -> [ok |-> TRUE, bytes |-> << >>]
      [] input = "flash" -> [ok |-> TRUE, bytes |-> <<1>>]
      [] OTHER -> NoMatch

uniswappy(call) == IF call.to = "sushiPool" THEN "Sushiswap" ELSE "Uniswap"

is_preflight(call) == call.preflight

check(call) == call.check

\* ---------------------------------------------------------------- inputs
Call(input, call_type, preflight, chk, to) ==
    [input |-> input, call_type |-> call_type, preflight |-> preflight,
     check |-> chk, to |-> to]

TransferIn ==
    [kind |-> "Transfer", from |-> "A", to |-> "pool", token |-> "tokA", amount |-> 1]

TransferOut ==
    [kind |-> "Transfer", from |-> "pool", to |-> "B", token |-> "tokB", amount |-> 2]

SwapCall == Call("swap", "Call", FALSE, FALSE, "uniPool")

FlashCall == Call("flash", "Call", FALSE, FALSE, "sushiPool")

AddCall == Call("add", "Call", FALSE, FALSE, "uniPool")

GuardCall == Call("other", "Call", FALSE, TRUE, "sushiPool")

CallSamples ==
    { SwapCall, FlashCall, AddCall, GuardCall,
      Call("addswap", "Call", FALSE, FALSE, "uniPool"),
      Call("swap", "StaticCall", TRUE, TRUE, "uniPool"),
      Call("other", "StaticCall", TRUE, FALSE, "uniPool"),
      Call("other", "StaticCall", FALSE, FALSE, "uniPool"),
      Call("other", "Call", TRUE, FALSE, "uniPool"),
      Call("other", "Call", FALSE, FALSE, "uniPool") }

TransferSamples == { TransferIn, TransferOut }

Shapes == [k : {"call"}, v : CallSamples] \cup [k : {"act"}, v : TransferSamples]

ChainShapes ==
    [k : {"call"}, v : {SwapCall, FlashCall, AddCall, GuardCall}]
      \cup [k : {"act"}, v : TransferSamples]

SeqsUpTo(S, n) == UNION { [1..m -> S] : m \in 0..n }

Build(shapes) ==
    [k \in 1..Len(shapes) |->
        IF shapes[k].k = "call"
        THEN Unknown(shapes[k].v, <<k - 1>>)
        ELSE Known(shapes[k].v, <<k - 1>>)]

Statuses == {"Success", "Reverted", "Checked"}

InitialProtocols == { {}, {"Uniswap"} }

\* ----------------------------------------------------------------- state
VARIABLES inspection, num_protocols, actions, prune, has_trade, i, pc,
          passes, status0, protocols0, scan, results

vars == <<inspection, num_protocols, actions, prune, has_trade, i, pc,
          passes, status0, protocols0, scan, results>>

NoScan == [i |-> -1]

InitWith(seqs, stats, protos) ==
    /\ inspection \in { [protocols |-> p, actions |-> Build(s), status |-> st] :
                          p \in protos, s \in seqs, st \in stats }
    /\ num_protocols = 0
    /\ actions = << >>
    /\ prune = << >>
    /\ has_trade = FALSE
    /\ i = 0
    /\ pc = "idle"
    /\ passes = 0
    /\ status0 = inspection.status
    /\ protocols0 = inspection.protocols
    /\ scan = NoScan
    /\ results = << >>

Init == InitWith(SeqsUpTo(Shapes, MaxLen), Statuses, InitialProtocols)

InitChain == InitWith(SeqsUpTo(ChainShapes, MaxChain), {"Reverted"}, { {} })

\* ------------------------------------------------------------- iterators
Enumerate(acts) == [k \in 1..Len(acts) |-> k - 1]

Rev(s) == [k \in 1..Len(s) |-> s[Len(s) + 1 - k]]

Skip(s, n) == IF n >= Len(s) THEN << >> ELSE SubSeq(s, n + 1, Len(s))

\* variant: the backward iterator skips one element too few
BackwardIterOffByOne(acts, idx) == Skip(Rev(Enumerate(acts)), Len(acts) - idx - 1)

\* actions.iter().enumerate().rev().skip(actions.len() - i)
BackwardIter(acts, idx) == Skip(Rev(Enumerate(acts)), Len(acts) - idx)

\* variant: the forward iterator starts at the swap itself
ForwardIterFromSelf(acts, idx) == Skip(Enumerate(acts), idx)

\* actions.iter().enumerate().skip(i + 1)
ForwardIter(acts, idx) == Skip(Enumerate(acts), idx + 1)

\* Directional Match Scanner: walk the iterator; an element that yields a
\* Transfer ends the search; one that yields nothing is skipped when
\* check_all (tolerant) and aborts the search otherwise (strict).
RECURSIVE find_matching(_, _, _)
find_matching(acts, iter, check_all) ==
    IF iter = << >> THEN NotFound
    ELSE LET j == Head(iter)
             t == transfer(At(acts, j))
         IN  IF t.found THEN [found |-> TRUE, idx |-> j, transfer |-> t.transfer]
             ELSE IF check_all THEN find_matching(acts, Tail(iter), check_all)
             ELSE NotFound

\* ------------------------------------------------------ classification
AddLiquidityAct(dec, trace_address) ==
    Known([kind |-> "AddLiquidity",
           tokens |-> <<dec.token0, dec.token1>>,
           amounts |-> <<dec.amount0, dec.amount1>>],
          trace_address)

\* variant: the two sides of the trade exchanged
TradeSwapped(transfer_in, transfer_out) ==
    Known([kind |-> "Trade", t1 |-> transfer_out, t2 |-> transfer_in], << >>)

Trade(transfer_in, transfer_out) ==
    Known([kind |-> "Trade", t1 |-> transfer_in, t2 |-> transfer_out], << >>)

\* variants: a recorded prune index off by one
PushPruneAfterIn(pr, idx_in, idx_out) == Append(Append(pr, idx_in + 1), idx_out)

PushPruneAfterOut(pr, idx_in, idx_out) == Append(Append(pr, idx_in), idx_out + 1)

PushPrune(pr, idx_in, idx_out) == Append(Append(pr, idx_in), idx_out)

\* variant: only payloads longer than one byte count as a flashswap
IsFlashswapLong(bytes) == Len(bytes) > 1

IsFlashswap(bytes) == bytes # << >>

IsGuard(call) ==
    (call.call_type = "StaticCall" /\ is_preflight(call)) \/ check(call)

\* variant: the swap decode is attempted before the liquidity-add decode
AttemptSwapFirst(call) ==
    IF decode_swap(call.input).ok THEN "swap"
    ELSE IF decode_addLiquidity(call.input).ok THEN "addLiquidity"
    ELSE IF (call.call_type = "StaticCall" /\ is_preflight(call)) \/ check(call)
    THEN "guard"
    ELSE "none"

\* the if / else-if chain of the loop body: first successful attempt wins
Attempt(call) ==
    IF decode_addLiquidity(call.input).ok THEN "addLiquidity"
    ELSE IF decode_swap(call.input).ok THEN "swap"
    ELSE IF IsGuard(call) THEN "guard"
    ELSE "none"

SetAction(idx, c) ==
    [inspection EXCEPT !.actions = [inspection.actions EXCEPT ![idx + 1] = c]]

AddLiquidityBranch(calltrace) ==
    /\ inspection' =
         SetAction(i, AddLiquidityAct(decode_addLiquidity(calltrace.call.input),
                                      calltrace.trace_address))
    /\ UNCHANGED <<prune, has_trade, scan>>

\* variant: the payload is looked at before the protocol is registered
SwapBranchPayloadFirst(call, bytes) ==
    LET registered ==
            [inspection EXCEPT !.protocols = @ \cup {uniswappy(call)}]
        back == BackwardIter(actions, i)
        fwd == ForwardIter(actions, i)
        res_in == find_matching(actions, back, TRUE)
        res_out == find_matching(actions, fwd, FALSE)
    IN  IF bytes # << >>
        THEN UNCHANGED <<inspection, prune, has_trade, scan>>
        ELSE IF res_in.found
        THEN /\ scan' = [i |-> i, back |-> back, res_in |-> res_in,
                         fwd_issued |-> TRUE, fwd |-> fwd, res_out |-> res_out]
             /\ IF res_out.found
                THEN /\ inspection' =
                          [registered EXCEPT !.actions[i + 1] =
                              Known([kind |-> "Trade", t1 |-> res_in.transfer,
                                     t2 |-> res_out.transfer], << >>)]
                     /\ has_trade' = TRUE
                     /\ prune' = Append(Append(prune, res_in.idx), res_out.idx)
                ELSE /\ inspection' = registered
                     /\ UNCHANGED <<prune, has_trade>>
        ELSE /\ scan' = [i |-> i, back |-> back, res_in |-> res_in,
                         fwd_issued |-> FALSE, fwd |-> << >>, res_out |-> NotFound]
             /\ inspection' = registered
             /\ UNCHANGED <<prune, has_trade>>

SwapBranch(call, bytes) ==
    LET registered ==
            [inspection EXCEPT !.protocols = @ \cup {uniswappy(call)}]
        back == BackwardIter(actions, i)
        fwd == ForwardIter(actions, i)
        res_in == find_matching(actions, back, TRUE)
        res_out == find_matching(actions, fwd, FALSE)
    IN  IF IsFlashswap(bytes)
        THEN /\ inspection' = registered
             /\ UNCHANGED <<prune, has_trade, scan>>
        ELSE IF res_in.found
        THEN /\ scan' = [i |-> i, back |-> back, res_in |-> res_in,
                         fwd_issued |-> TRUE, fwd |-> fwd, res_out |-> res_out]
             /\ IF res_out.found
                THEN /\ inspection' =
                          [registered EXCEPT !.actions[i + 1] =
                              Trade(res_in.transfer, res_out.transfer)]
                     /\ has_trade' = TRUE
                     /\ prune' = PushPrune(prune, res_in.idx, res_out.idx)
                ELSE /\ inspection' = registered
                     /\ UNCHANGED <<prune, has_trade>>
        ELSE /\ scan' = [i |-> i, back |-> back, res_in |-> res_in,
                         fwd_issued |-> FALSE, fwd |-> << >>, res_out |-> NotFound]
             /\ inspection' = registered
             /\ UNCHANGED <<prune, has_trade>>

GuardBranch(call) ==
    /\ inspection' = [inspection EXCEPT
                        !.protocols = @ \cup {uniswappy(call)},
                        !.actions[i + 1] = Prune]
    /\ UNCHANGED <<prune, has_trade, scan>>

\* ---------------------------------------------------------------- steps
\* lines 13-17: num_protocols, the snapshot, the empty prune list, has_trade
StartPass ==
    /\ pc \in {"idle", "done"}
    /\ passes < MaxPasses
    /\ num_protocols' = Cardinality(inspection.protocols)
    /\ actions' = inspection.actions
    /\ prune' = << >>
    /\ has_trade' = FALSE
    /\ i' = 0
    /\ pc' = "loop"
    /\ status0' = inspection.status
    /\ protocols0' = inspection.protocols
    /\ scan' = NoScan
    /\ UNCHANGED <<inspection, passes, results>>

\* one iteration of `for i in 0..inspection.actions.len()`
LoopStep ==
    /\ pc = "loop"
    /\ i < Len(inspection.actions)
    /\ LET action == At(inspection.actions, i)
       IN  IF is_call(action)
           THEN LET calltrace == action.calltrace
                    call == calltrace.call
                    kind == Attempt(call)
                IN  CASE kind = "addLiquidity" -> AddLiquidityBranch(calltrace)
                      [] kind = "swap" ->
                            SwapBranch(call, decode_swap(call.input).bytes)
                      [] kind = "guard" -> GuardBranch(call)
                      [] OTHER -> UNCHANGED <<inspection, prune, has_trade, scan>>
           ELSE UNCHANGED <<inspection, prune, has_trade, scan>>
    /\ i' = i + 1
    /\ UNCHANGED <<num_protocols, actions, pc, passes, status0, protocols0, results>>

LoopExit ==
    /\ pc = "loop"
    /\ i >= Len(inspection.actions)
    /\ pc' = "prune"
    /\ UNCHANGED <<inspection, num_protocols, actions, prune, has_trade, i,
                   passes, status0, protocols0, scan, results>>

RECURSIVE PruneAll(_, _)
PruneAll(acts, pr) ==
    IF pr = << >> THEN acts
    ELSE PruneAll([acts EXCEPT ![Head(pr) + 1] = Prune], Tail(pr))

\* lines 102-104; an index outside the sequence panics
ApplyPrune ==
    /\ pc = "prune"
    /\ IF \A k \in 1..Len(prune) : prune[k] \in Indices(inspection.actions)
       THEN /\ inspection' = [inspection EXCEPT !.actions = PruneAll(@, prune)]
            /\ pc' = "heuristic"
       ELSE /\ pc' = "panic"
            /\ UNCHANGED inspection
    /\ UNCHANGED <<num_protocols, actions, prune, has_trade, i,
                   passes, status0, protocols0, scan, results>>

CountActions(acts) == Cardinality({k \in Indices(acts) : is_action(At(acts, k))})

\* variants: the comparisons of the heuristic relaxed
EarlyRevertUpToTwo(insp, num, traded) ==
    /\ Cardinality(insp.protocols) > num
    /\ CountActions(insp.actions) <= 2
    /\ ~traded

EarlyRevertNoGrowth(insp, num, traded) ==
    /\ Cardinality(insp.protocols) >= num
    /\ CountActions(insp.actions) < 2
    /\ ~traded

\* lines 109-116
EarlyRevert(insp, num, traded) ==
    /\ Cardinality(insp.protocols) > num
    /\ CountActions(insp.actions) < 2
    /\ ~traded

Heuristic ==
    /\ pc = "heuristic"
    /\ inspection' = IF EarlyRevert(inspection, num_protocols, has_trade)
                     THEN [inspection EXCEPT !.status = "Checked"]
                     ELSE inspection
    /\ pc' = "done"
    /\ passes' = passes + 1
    /\ results' = Append(results, inspection')
    /\ UNCHANGED <<num_protocols, actions, prune, has_trade, i,
                   status0, protocols0, scan>>

Next == StartPass \/ LoopStep \/ LoopExit \/ ApplyPrune \/ Heuristic

Spec == Init /\ [][Next]_vars

SpecChain == InitChain /\ [][Next]_vars

TypeOK ==
    /\ pc \in {"idle", "loop", "prune", "heuristic", "done", "panic"}
    /\ inspection.status \in Statuses
    /\ i \in 0..Len(inspection.actions)

\* ------------------------------------------------- vocabulary of the claims
live == inspection.actions

InPass == pc \in {"loop", "prune", "heuristic", "done"}

AfterPrune == pc \in {"heuristic", "done"}

IsTransfer(c) == c.tag = "Known" /\ c.action.kind = "Transfer"

IsTrade(c) == c.tag = "Known" /\ c.action.kind = "Trade"

DecodesSwapOnly(c) ==
    /\ c.tag = "Unknown"
    /\ ~decode_addLiquidity(c.calltrace.call.input).ok
    /\ decode_swap(c.calltrace.call.input).ok

IsEmptySwap(c) ==
    DecodesSwapOnly(c) /\ decode_swap(c.calltrace.call.input).bytes = << >>

IsFlash(c) ==
    DecodesSwapOnly(c) /\ decode_swap(c.calltrace.call.input).bytes # << >>

IsGuardOnly(c) ==
    /\ c.tag = "Unknown"
    /\ ~decode_addLiquidity(c.calltrace.call.input).ok
    /\ ~decode_swap(c.calltrace.call.input).ok
    /\ \/ c.calltrace.call.call_type = "StaticCall" /\ c.calltrace.call.preflight
       \/ c.calltrace.call.check

TransfersBelow(acts, idx) == {j \in Indices(acts) : j < idx /\ IsTransfer(At(acts, j))}

MaxOf(S) == CHOOSE m \in S : \A n \in S : n <= m

HasOut(acts, idx) == idx + 1 < Len(acts) /\ IsTransfer(At(acts, idx + 1))

Pairs(acts, idx) == TransfersBelow(acts, idx) # {} /\ HasOut(acts, idx)

ProtocolOf(c) == IF c.calltrace.call.to = "sushiPool" THEN "Sushiswap" ELSE "Uniswap"

TradeFormed ==
    \E idx \in Indices(actions) :
        idx < Len(live) /\ IsTrade(At(live, idx)) /\ ~IsTrade(At(actions, idx))

CurrentIsFlash == pc = "loop" /\ i < Len(live) /\ IsFlash(At(live, i))

C2_StatusRule ==
    /\ pc \in {"loop", "prune", "heuristic"} => inspection.status = status0
    /\ pc = "done" =>
         LET grew == /\ protocols0 \subseteq inspection.protocols
                     /\ protocols0 # inspection.protocols
             few == Cardinality({k \in Indices(live) : At(live, k).tag = "Known"}) < 2
             rule == grew /\ few /\ ~TradeFormed
         IN  /\ inspection.status = "Checked" <=> (status0 = "Checked" \/ rule)
             /\ inspection.status # "Checked" => inspection.status = status0
             /\ TradeFormed => inspection.status = status0

C2_Witness ==
    /\ pc = "done"
    /\ status0 = "Reverted"
    /\ inspection.status = "Checked"
    /\ \E k \in Indices(live) : IsTransfer(At(live, k))

\* ------------------------------------------------------------------- C3
OnlyFlashRegisters(acts) ==
    /\ \E idx \in Indices(acts) : IsFlash(At(acts, idx))
    /\ \A idx \in Indices(acts) :
         ~IsEmptySwap(At(acts, idx)) /\ ~IsGuardOnly(At(acts, idx))

FlashProtocols(acts) ==
    {ProtocolOf(At(acts, idx)) : idx \in {k \in Indices(acts) : IsFlash(At(acts, k))}}

\* C3 as stated: a sequence whose only protocol-related calls are swaps with
\* a non-empty payload ends the pass with the protocol set of pass start and
\* with status unchanged.
C3_Original ==
    (pc = "done" /\ OnlyFlashRegisters(actions)) =>
        /\ inspection.protocols = protocols0
        /\ inspection.status = status0

\* C3 amended: the protocol of a swap call is registered before the payload
\* is looked at; the iteration on a swap with a non-empty payload adds the
\* call's protocol and nothing else changes, so a sequence whose only
\* protocol-related calls are such swaps ends the pass with the pass-start
\* protocol set extended by exactly those calls' protocols.
C3_Amended ==
    /\ [][CurrentIsFlash =>
            /\ inspection'.protocols =
                 inspection.protocols \cup {ProtocolOf(At(live, i))}
            /\ inspection'.actions = inspection.actions
            /\ inspection'.status = inspection.status
            /\ i' = i + 1]_vars
    /\ []((AfterPrune /\ OnlyFlashRegisters(actions)) =>
            inspection.protocols = protocols0 \cup FlashProtocols(actions))

C3_Witness ==
    /\ pc = "done"
    /\ OnlyFlashRegisters(actions)
    /\ inspection.protocols # protocols0
    /\ inspection.status = "Checked"
    /\ status0 # "Checked"

\* ------------------------------------------------------------------- C4
\* C4: the iteration on a swap call with a non-empty payload changes neither
\* the action sequence, nor the trade flag, nor the deferred-prune list; no
\* recorded prune index points at such a call; after the pass the index still
\* holds the same raw call; the sides of every Trade are Transfers.
C4_FlashUntouched ==
    /\ [][CurrentIsFlash =>
            /\ inspection'.actions = inspection.actions
            /\ has_trade' = has_trade
            /\ prune' = prune]_vars
    /\ [](InPass =>
            /\ \A k \in 1..Len(prune) :
                 prune[k] \in Indices(actions) => ~IsFlash(At(actions, prune[k]))
            /\ \A idx \in Indices(actions) :
                 /\ IsFlash(At(actions, idx)) =>
                      (idx < Len(live) /\ At(live, idx) = At(actions, idx))
                 /\ (idx < Len(live) /\ IsTrade(At(live, idx))) =>
                      /\ At(live, idx).action.t1.kind = "Transfer"
                      /\ At(live, idx).action.t2.kind = "Transfer")

C4_Witness ==
    /\ pc = "done"
    /\ \E idx \in Indices(actions) :
         /\ IsFlash(At(actions, idx))
         /\ Pairs(actions, idx)
         /\ At(live, idx) = At(actions, idx)

\* ------------------------------------------------------------------- C5
Downward(idx) == [k \in 1..idx |-> idx - k]

Processed(idx) == pc # "loop" \/ idx < i

DecodesAdd(c) == c.tag = "Unknown" /\ decode_addLiquidity(c.calltrace.call.input).ok

\* C6: a processed raw call that decodes as liquidity-add is AddLiquidity
\* with <<token0, token1>>, <<amount0, amount1>> and the call's trace
\* position, and its iteration registers no protocol; one that decodes as
\* swap only is never Prune; one that decodes as neither is Prune with its
\* protocol registered iff (static call and preflight) or check holds, and
\* is otherwise left as it was, its iteration changing nothing.
C6_AttemptOrder ==
    /\ [](InPass =>
            \A idx \in Indices(actions) :
              (At(actions, idx).tag = "Unknown" /\ Processed(idx)) =>
                LET c == At(actions, idx)
                    now == At(live, idx)
                IN  /\ DecodesAdd(c) =>
                          now = [tag |-> "Known",
                                 action |-> [kind |-> "AddLiquidity",
                                             tokens |-> <<"tokA", "tokB">>,
                                             amounts |-> <<1, 2>>],
                                 trace_address |-> c.calltrace.trace_address]
                    /\ DecodesSwapOnly(c) => now # Prune
                    /\ IsGuardOnly(c) =>
                          now = Prune /\ ProtocolOf(c) \in inspection.protocols
                    /\ now = Prune <=> IsGuardOnly(c)
                    /\ (~DecodesAdd(c) /\ ~DecodesSwapOnly(c) /\ ~IsGuardOnly(c)) =>
                          now = c)
    /\ [][(pc = "loop" /\ i < Len(live) /\ At(live, i).tag = "Unknown"
             /\ (DecodesAdd(At(live, i))
                   \/ (~DecodesSwapOnly(At(live, i)) /\ ~IsGuardOnly(At(live, i))))) =>
            /\ inspection'.protocols = inspection.protocols
            /\ inspection'.status = inspection.status
            /\ prune' = prune
            /\ has_trade' = has_trade]_vars

C6_Witness ==
    /\ pc = "done"
    /\ \E a, b, c \in Indices(actions) :
         /\ At(actions, a).tag = "Unknown"
         /\ decode_addLiquidity(At(actions, a).calltrace.call.input).ok
         /\ decode_swap(At(actions, a).calltrace.call.input).ok
         /\ At(live, a).action.kind = "AddLiquidity"
         /\ DecodesSwapOnly(At(actions, b))
         /\ At(actions, b).calltrace.call.check
         /\ At(live, b) # Prune
         /\ IsGuardOnly(At(actions, c))
         /\ At(live, c) = Prune

\* ------------------------------------------------------------------- C7
Settled(c) == c = Prune \/ IsTrade(c)

\* C7: in every step, of any pass, an index holding Prune or a Trade holds
\* the same value afterwards; every index recorded for deferred pruning
\* holds a Transfer (or Prune, once the prunes are applied).
C7_NeverReclassified ==
    /\ [][\A idx \in Indices(live) :
            Settled(At(live, idx)) =>
              (idx < Len(inspection'.actions)
                 /\ At(inspection'.actions, idx) = At(live, idx))]_vars
    /\ [](\A k \in 1..Len(prune) :
            /\ prune[k] \in Indices(live)
            /\ IF pc \in {"loop", "prune"}
               THEN IsTransfer(At(live, prune[k]))
               ELSE At(live, prune[k]) = Prune)

C7_Witness ==
    /\ pc = "done"
    /\ passes >= 2
    /\ \E a, b \in Indices(live) :
         /\ IsTrade(At(live, a))
         /\ At(live, b) = Prune
         /\ IsTransfer(At(results[1].actions, b)) = FALSE
         /\ results[1].actions[a + 1] = At(live, a)

\* ------------------------------------------------------------------- C8
\* C8: throughout a pass the sequence keeps the length of the snapshot, an
\* index whose value differs from the snapshot held a raw call or a Transfer
\* in the snapshot, every recorded prune index is within the sequence, and
\* the prune step never indexes out of range.
C8_ShapePreserved ==
    /\ pc # "panic"
    /\ InPass =>
         /\ Len(live) = Len(actions)
         /\ \A idx \in Indices(actions) :
              At(live, idx) # At(actions, idx) =>
                (At(actions, idx).tag = "Unknown" \/ IsTransfer(At(actions, idx)))
         /\ \A k \in 1..Len(prune) : prune[k] >= 0 /\ prune[k] < Len(live)

C8_Witness ==
    /\ pc = "done"
    /\ Len(prune) >= 2
    /\ prune[Len(prune)] = Len(live) - 1
    /\ \E idx \in Indices(actions) :
         At(actions, idx).tag = "Unknown" /\ At(live, idx) # At(actions, idx)

\* ------------------------------------------------------------------- C9
\* C9: every pass after the first leaves the Inspection exactly as the pass
\* before it left it (actions, protocol set and status).
C9_Idempotent ==
    \A k \in 2..Len(results) : results[k] = results[k - 1]

C9_Witness ==
    /\ Len(results) >= 2
    /\ \E idx \in Indices(live) : IsTrade(At(live, idx))
    /\ \A idx \in Indices(live) :
         \/ Settled(At(live, idx))
         \/ (At(live, idx).tag = "Known" /\ At(live, idx).action.kind = "AddLiquidity")
    /\ results[1].actions = live
    /\ inspection.protocols # {}

\* ------------------------------------------------------------------ C10
ChainAt(acts, idx) ==
    /\ idx + 4 < Len(acts)
    /\ IsTransfer(At(acts, idx))
    /\ IsEmptySwap(At(acts, idx + 1))
    /\ IsTransfer(At(acts, idx + 2))
    /\ IsEmptySwap(At(acts, idx + 3))
    /\ IsTransfer(At(acts, idx + 4))

TradeOf(a, b) ==
    [tag |-> "Known",
     action |-> [kind |-> "Trade", t1 |-> a.action, t2 |-> b.action],
     trace_address |-> << >>]

\* C10: while the loop runs, every Transfer of the snapshot is still a
\* Transfer in the live sequence (pruning is deferred) and each swap already
\* processed was decided by the snapshot alone; so in
\* [Transfer, Swap, Transfer, Swap, Transfer] both swaps become Trades that
\* share the middle Transfer and all three Transfers end as Prune.
C10_SnapshotLookups ==
    /\ pc = "loop" =>
         \A idx \in Indices(actions) :
           /\ IsTransfer(At(actions, idx)) => At(live, idx) = At(actions, idx)
           /\ (IsEmptySwap(At(actions, idx)) /\ idx < i) =>
                (IsTrade(At(live, idx)) <=> Pairs(actions, idx))
    /\ AfterPrune =>
         \A idx \in Indices(actions) :
           ChainAt(actions, idx) =>
             /\ At(live, idx + 1) = TradeOf(At(actions, idx), At(actions, idx + 2))
             /\ At(live, idx + 3) = TradeOf(At(actions, idx + 2), At(actions, idx + 4))
             /\ At(live, idx) = Prune
             /\ At(live, idx + 2) = Prune
             /\ At(live, idx + 4) = Prune

C10_Witness ==
    /\ pc = "done"
    /\ ChainAt(actions, 0)
    /\ At(actions, 0) # At(actions, 2)
    /\ At(live, 1).action.t2 = At(live, 3).action.t1
====
